---- MODULE Spec2Model ----
(***************************************************************************)
(* FhirApiClient (src/client.py): the request executor send_request, its   *)
(* success classification, and the two batch orchestrators                 *)
(* post_or_put_all and delete_all.                                         *)
(*                                                                         *)
(* Python values are tagged records: None, str, list and dict.  A dict is  *)
(* a function from its keys to values.  An exception is the name of its    *)
(* class; "none" stands for no exception.                                  *)
(***************************************************************************)
EXTENDS Integers, Sequences, FiniteSets, TLC

VARIABLES
    client,     \* the client's fields auth, fhir_version, status_endpoint, session
    is_down,    \* check_service_status's local `is_down`
    caller,     \* the public method the client's user called, "none" before
    pc,         \* where that method is: "idle", "fetch", "loop", "returned", "raised"
    args,       \* the arguments it was called with
    idx,        \* the position of its for loop (1-based)
    success,    \* its local `success`
    results,    \* post_or_put_all's local `results`
    fetched,    \* delete_all's local `resp_content`
    sr_pc,      \* where send_request is: "idle", "in_flight", "replied", "returned", "raised"
    retry,      \* the Retry object of the session call in flight
    request,    \* the request send_request handed to the session
    reply,      \* the response the session gave back
    ret,        \* send_request's return value (success, result)
    exc,        \* the exception that left send_request, or "none"
    sent,       \* every request handed to the session, in order
    log         \* every (response, success) send_request returned on, in order

callerVars == <<client, is_down, caller, pc, args, idx, success, results, fetched>>
vars == <<client, is_down, caller, pc, args, idx, success, results, fetched,
          sr_pc, retry, request, reply, ret, exc, sent, log>>

---------------------------------------------------------------------------
(* Bounds of the model *)

MaxIssues == 2      \* longest `issue` list in a response body
MaxItems == 3       \* longest resource_dicts list given to post_or_put_all
MaxEntries == 3     \* longest `entry` list in a fetched bundle

---------------------------------------------------------------------------
(* Python values *)

None == [t |-> "none"]
Str(s) == [t |-> "str", s |-> s]
List(q) == [t |-> "list", v |-> q]
Dict(f) == [t |-> "dict", d |-> f]
EmptyDict == Dict([k \in {} |-> None])

\* bool(v)
Truthy(v) ==
    CASE v.t = "none" -> FALSE
      [] v.t = "str"  -> v.s # ""
      [] v.t = "list" -> Len(v.v) > 0
      [] v.t = "dict" -> DOMAIN v.d # {}

\* Sequences over S of length at most n
SeqUpTo(S, n) == UNION {[1..k -> S] : k \in 0..n}

---------------------------------------------------------------------------
(* JSON text: json.dumps and json.loads over the documents of the model *)

KeyOrder == <<"resourceType", "id", "severity", "code", "issue", "total",
              "entry", "resource">>

RECURSIVE Dumps(_)
RECURSIVE DumpsList(_)
RECURSIVE DumpsKeys(_, _, _)
DumpsList(q) ==
    IF q = <<>> THEN ""
    ELSE Dumps(Head(q)) \o (IF Len(q) > 1 THEN "," ELSE "") \o DumpsList(Tail(q))
DumpsKeys(d, i, first) ==
    IF i > Len(KeyOrder) THEN ""
    ELSE IF KeyOrder[i] \in DOMAIN d
         THEN (IF first THEN "" ELSE ",") \o "\"" \o KeyOrder[i] \o "\":"
              \o Dumps(d[KeyOrder[i]]) \o DumpsKeys(d, i + 1, FALSE)
         ELSE DumpsKeys(d, i + 1, first)
Dumps(v) ==
    CASE v.t = "none" -> "null"
      [] v.t = "str"  -> "\"" \o v.s \o "\""
      [] v.t = "list" -> "[" \o DumpsList(v.v) \o "]"
      [] v.t = "dict" -> "{" \o DumpsKeys(v.d, 1, TRUE) \o "}"

\* The JSON documents the servers of the model answer with
Severities == {"error", "warning", "fatal"}
IssueEntries ==
    {Dict([severity |-> Str(s)]) : s \in Severities}
        \cup {Dict([code |-> Str("invalid")])}
IssueLists == SeqUpTo(IssueEntries, MaxIssues)
ErrorOutcome == Dict([issue |-> List(<<Dict([severity |-> Str("error")])>>)])
OutcomeDocs == {Dict([issue |-> List(q)]) : q \in IssueLists}
OddDocs == {EmptyDict, None, List(<<Str("x")>>), Str("ok"), Dict([issue |-> None])}
ResourceOf(rt, id) == Dict([resourceType |-> Str(rt), id |-> Str(id)])
BundleEntries ==
    {Dict([resource |-> ResourceOf("Patient", "p1")]),
     Dict([resource |-> ResourceOf("Observation", "o1")]),
     Dict([resource |-> ResourceOf("OperationOutcome", "oo1")]),
     Dict([resource |-> Dict([resourceType |-> Str("Patient")])])}
Bundles ==
    {Dict([resourceType |-> Str("Bundle"), entry |-> List(q)]) :
        q \in SeqUpTo(BundleEntries, MaxEntries)}
        \cup {Dict([resourceType |-> Str("Bundle")])}
RejectedBundle ==
    Dict([issue |-> ErrorOutcome.d.issue,
          entry |-> List(<<Dict([resource |-> ResourceOf("Patient", "p1")])>>)])
Documents == OutcomeDocs \cup OddDocs \cup Bundles \cup {RejectedBundle}

\* response.json(): the document whose text the body is, or JSONDecodeError
JsonTexts == {[text |-> Dumps(v), value |-> v] : v \in Documents}
Loads(text) ==
    IF \E j \in JsonTexts : j.text = text
    THEN [exc |-> "none", value |-> (CHOOSE j \in JsonTexts : j.text = text).value]
    ELSE [exc |-> "JSONDecodeError", value |-> None]

\* Texts that are no JSON document
PlainTexts == {"", "<html>"}

---------------------------------------------------------------------------
(* send_request and its helpers *)

\* str.lower() and str.upper() on the method names of the model
MethodNames == {"get", "post", "put", "delete", "patch", "head", "trace", "PUT"}
Lower(m) == IF m = "PUT" THEN "put" ELSE m
Upper(m) ==
    CASE m = "get" -> "GET"
      [] m = "post" -> "POST"
      [] m = "put" -> "PUT"
      [] m = "delete" -> "DELETE"
      [] m = "patch" -> "PATCH"
      [] m = "head" -> "HEAD"
      [] m = "trace" -> "TRACE"
      [] OTHER -> m

\* The request methods a requests.Session has: getattr(self.session, name)
\* raises AttributeError for any other name
SessionMethods == {"get", "post", "put", "delete", "patch", "head", "options"}

\* success_status with 201 accepted for every method that has a set
success_status_created(name) ==
    CASE name \in {"GET", "POST", "PUT"} -> {200, 201}
      [] name = "DELETE" -> {204, 200, 201}
      [] OTHER -> {}

\* success_status.get(request_method_name, {})
success_status(name) ==
    CASE name = "GET" -> {200}
      [] name = "POST" -> {200, 201}
      [] name = "PUT" -> {200, 201}
      [] name = "DELETE" -> {204, 200}
      [] OTHER -> {}

\* urllib.parse.unquote on the urls of the model
EscapedUrl == "http://fhir/Patient?name=A%20B"
Unquote(u) == IF u = EscapedUrl THEN "http://fhir/Patient?name=A B" ELSE u

\* _response_content(response)
response_content(response) ==
    IF Loads(response.text).exc = "none"
    THEN Loads(response.text).value
    ELSE Str(response.text)

\* issue['severity'] == 'error' for one element of the issue list: the
\* exception it raises, or whether the element is kept
SeverityTest(issue) ==
    IF issue.t # "dict" THEN [exc |-> "TypeError", keep |-> FALSE]
    ELSE IF "severity" \notin DOMAIN issue.d THEN [exc |-> "KeyError", keep |-> FALSE]
    ELSE [exc |-> "none", keep |-> issue.d.severity = Str("error")]

\* The list comprehension over a list of issues, left to right
RECURSIVE ScanIssues(_)
ScanIssues(q) ==
    IF q = <<>> THEN [exc |-> "none", errors |-> <<>>]
    ELSE LET one == SeverityTest(Head(q))
             rest == ScanIssues(Tail(q))
         IN IF one.exc # "none" THEN [exc |-> one.exc, errors |-> <<>>]
            ELSE IF rest.exc # "none" THEN rest
            ELSE [exc |-> "none",
                  errors |-> IF one.keep THEN <<Head(q)>> \o rest.errors
                             ELSE rest.errors]

\* The elements a for loop over v visits, or TypeError if v is not iterable
\* (a str yields its characters, a dict its keys: str values either way)
Iterate(v) ==
    CASE v.t = "none" -> [exc |-> "TypeError", items |-> <<>>]
      [] v.t = "list" -> [exc |-> "none", items |-> v.v]
      [] v.t = "str"  -> [exc |-> "none",
                          items |-> IF v.s = "" THEN <<>> ELSE <<Str("c")>>]
      [] v.t = "dict" -> [exc |-> "none",
                          items |-> IF DOMAIN v.d = {} THEN <<>> ELSE <<Str("k")>>]

\* _errors_from_response looking at the first issue only
errors_from_first_issue(response_body) ==
    LET body == IF Truthy(response_body) THEN response_body ELSE EmptyDict
    IN IF body.t # "dict" THEN [exc |-> "AttributeError", errors |-> <<>>]
       ELSE LET issues == IF "issue" \in DOMAIN body.d THEN body.d.issue
                          ELSE List(<<>>)
            IN IF Iterate(issues).exc # "none"
               THEN [exc |-> Iterate(issues).exc, errors |-> <<>>]
               ELSE ScanIssues(IF Iterate(issues).items = <<>> THEN <<>>
                               ELSE <<Head(Iterate(issues).items)>>)

\* _errors_from_response(response_body)
errors_from_response(response_body) ==
    LET body == IF Truthy(response_body) THEN response_body ELSE EmptyDict
    IN IF body.t # "dict" THEN [exc |-> "AttributeError", errors |-> <<>>]
       ELSE LET issues == IF "issue" \in DOMAIN body.d THEN body.d.issue
                          ELSE List(<<>>)
            IN IF Iterate(issues).exc # "none"
               THEN [exc |-> Iterate(issues).exc, errors |-> <<>>]
               ELSE ScanIssues(Iterate(issues).items)

\* send_request from the response on (lines 217-252): the exception that
\* leaves it, or the (success, result) pair it returns
NoResult == [status_code |-> 0, request_url |-> "", response |-> None]
SendRequestOutcome(name, response) ==
    LET resp_content == response_content(response)
        request_method_name == Upper(name)
        request_url == Unquote(response.url)
        accepted == response.status_code \in success_status(request_method_name)
        errors == errors_from_response(resp_content)
    IN IF accepted /\ errors.exc # "none"
       THEN [exc |-> errors.exc, success |-> FALSE, result |-> NoResult]
       ELSE [exc |-> "none",
             success |-> accepted /\ errors.errors = <<>>,
             result |-> [status_code |-> response.status_code,
                         request_url |-> request_url,
                         response |-> resp_content]]

NoKwargs == [k \in {} |-> None]
NoRequest == [name |-> "", url |-> "", kwargs |-> NoKwargs]
NoReply == [status_code |-> 0, url |-> "", text |-> ""]
NoRet == [success |-> FALSE, result |-> NoResult]

\* dict[key] = value
DictSet(d, key, value) ==
    [k \in DOMAIN d \cup {key} |-> IF k = key THEN value ELSE d[k]]

\* dict.update(other)
DictUpdate(d, other) ==
    [k \in DOMAIN d \cup DOMAIN other |-> IF k \in DOMAIN other THEN other[k] ELSE d[k]]

\* fhir_version.split('.')[0], a version being the sequence of its characters
RECURSIVE MajorVersion(_)
MajorVersion(v) ==
    IF v = <<>> \/ Head(v) = "." THEN ""
    ELSE Head(v) \o MajorVersion(Tail(v))

\* _fhir_version_headers()
fhir_version_headers ==
    IF client.fhir_version = <<>> THEN NoKwargs
    ELSE "Content-Type" :>
            ("application/fhir+json; fhirVersion="
                \o MajorVersion(client.fhir_version) \o ".0")

\* A header policy that overwrites the caller's Content-Type
SessionKwargsAlwaysInject(request_kwargs) ==
    LET with_auth == IF Truthy(client.auth)
                     THEN DictUpdate(request_kwargs, [auth |-> client.auth])
                     ELSE request_kwargs
        headers == IF "headers" \in DOMAIN with_auth THEN with_auth.headers
                   ELSE NoKwargs
    IN DictSet(with_auth, "headers", DictUpdate(headers, fhir_version_headers))

\* The keyword arguments send_request hands to the session (lines 204-211)
SessionKwargs(request_kwargs) ==
    LET with_auth == IF Truthy(client.auth)
                     THEN DictUpdate(request_kwargs, [auth |-> client.auth])
                     ELSE request_kwargs
        headers == IF "headers" \in DOMAIN with_auth THEN with_auth.headers
                   ELSE NoKwargs
        sent_headers == IF "Content-Type" \notin DOMAIN headers
                        THEN DictUpdate(headers, fhir_version_headers)
                        ELSE headers
    IN DictSet(with_auth, "headers", sent_headers)

\* The call of send_request up to the request handed to the session
\* (lines 202-216): getattr fails for a name the session lacks
EnterSendRequest(name, url, request_kwargs) ==
    /\ reply' = NoReply
    /\ ret' = NoRet
    /\ log' = log
    /\ IF Lower(name) \in SessionMethods
       THEN /\ sr_pc' = "in_flight"
            /\ retry' = client.session
            /\ request' = [name |-> name, url |-> url,
                           kwargs |-> SessionKwargs(request_kwargs)]
            /\ sent' = Append(sent, [method |-> Lower(name), url |-> url,
                                     json |-> IF "json" \in DOMAIN request_kwargs
                                              THEN request_kwargs.json ELSE None])
            /\ exc' = "none"
       ELSE /\ sr_pc' = "raised"
            /\ request' = NoRequest
            /\ exc' = "AttributeError"
            /\ UNCHANGED <<sent, retry>>

---------------------------------------------------------------------------
(* requests_retry_session: the retry policy mounted on the session *)

\* An int as a Python value: a counter of Retry is an int or None
PyInt(n) == [t |-> "int", n |-> n]

DefaultTotal == 10
DefaultRead == 10
DefaultConnect == 1
DefaultStatus == 10
status_forcelist == {500, 502, 503, 504}

\* The methods urllib3 retries unless told otherwise
DEFAULT_METHOD_WHITELIST == {"HEAD", "GET", "PUT", "DELETE", "OPTIONS", "TRACE"}
\* method_whitelist=False: no method is filtered out
method_whitelist == {}

\* A policy that hands the last forced response back instead of raising
raise_on_status_off == FALSE
\* Retry(...) is not given raise_on_status, which stays True
raise_on_status == TRUE

\* The Retry object requests_retry_session builds (lines 114-121): the
\* `status` argument is not handed to Retry, whose status stays None
requests_retry_session(total, read, connect, status) ==
    [total |-> PyInt(total), read |-> PyInt(read), connect |-> PyInt(connect),
     status |-> None,
     status_forcelist |-> status_forcelist,
     method_whitelist |-> method_whitelist,
     raise_on_status |-> raise_on_status]

NoRetry == [total |-> None, read |-> None, connect |-> None, status |-> None,
            status_forcelist |-> {}, method_whitelist |-> {},
            raise_on_status |-> TRUE]

\* Retry._is_method_retryable: an empty (False) whitelist filters nothing
Retryable(r, method) ==
    r.method_whitelist = {} \/ Upper(method) \in r.method_whitelist

\* Retry.is_retry for a response without Retry-After
is_retry(r, method, status_code) ==
    Retryable(r, method) /\ status_code \in r.status_forcelist

\* A read error on a method the policy does not retry is raised at once
Reraised(r, method, kind) == kind = "read" /\ ~Retryable(r, method)

Decrement(c) == IF c.t = "int" THEN PyInt(c.n - 1) ELSE c

\* Retry.increment: total and the counter of the failure's kind go down
increment(r, kind) ==
    [r EXCEPT !.total = Decrement(@),
              !.connect = IF kind = "connect" THEN Decrement(@) ELSE @,
              !.read = IF kind = "read" THEN Decrement(@) ELSE @,
              !.status = IF kind = "status" THEN Decrement(@) ELSE @]

\* Retry.is_exhausted: a counter that is set has gone below zero
is_exhausted(r) ==
    \E c \in {r.total, r.connect, r.read, r.status} : c.t = "int" /\ c.n < 0

---------------------------------------------------------------------------
\* The responses the servers of the model give.  A status code of the retry
\* policy's status_forcelist never comes back as a response.
Statuses == {200, 201, 204, 400, 404}
SendTexts == PlainTexts \cup {Dumps(v) : v \in OutcomeDocs \cup OddDocs}
WriteTexts == {"<html>", Dumps(EmptyDict), Dumps(ErrorOutcome)}
FetchTexts == {"", "<html>", Dumps(ErrorOutcome), Dumps(RejectedBundle)}
                  \cup {Dumps(v) : v \in Bundles}
DeleteTexts == {"", "<html>", Dumps(ErrorOutcome)}
Responses ==
    CASE caller = "send_request" ->
            [status_code : Statuses, url : {request.url, EscapedUrl}, text : SendTexts]
      [] caller = "post_or_put_all" ->
            [status_code : {201, 400}, url : {request.url}, text : WriteTexts]
      [] caller = "delete_all" /\ Lower(request.name) = "get" ->
            [status_code : {200, 404}, url : {request.url}, text : FetchTexts]
      [] caller = "send_request_retry" ->
            [status_code : {200, 404} \cup status_forcelist, url : {request.url},
             text : {"", Dumps(ErrorOutcome)}]
      [] caller = "check_service_status" ->
            [status_code : {200, 204, 304, 404} \cup status_forcelist,
             url : {request.url}, text : {""}]
      [] OTHER ->
            [status_code : {200, 204, 404}, url : {request.url}, text : DeleteTexts]

\* The errors an attempt of the session can end in
ErrorKinds ==
    CASE caller \in {"send_request_retry", "check_service_status"} ->
            {"connect", "read"}
      [] OTHER -> {"connect"}

\* An attempt is answered and the answer is handed back (line 216): its
\* status code forces no retry, or the budget is spent and the policy
\* does not raise on status
Session_Respond ==
    /\ sr_pc = "in_flight"
    /\ \E response \in Responses :
          /\ \/ ~is_retry(retry, request.name, response.status_code)
             \/ /\ is_exhausted(increment(retry, "status"))
                /\ ~retry.raise_on_status
          /\ reply' = response
    /\ sr_pc' = "replied"
    /\ retry' = NoRetry
    /\ UNCHANGED <<callerVars, request, ret, exc, sent, log>>

\* What an attempt that is not handed back ended in
AttemptFailures ==
    ErrorKinds \cup
        {"status" : response \in
            {r \in Responses : is_retry(retry, request.name, r.status_code)}}

\* An attempt fails and the session sends the request again
Session_Retry ==
    /\ sr_pc = "in_flight"
    /\ \E kind \in AttemptFailures :
          /\ ~Reraised(retry, request.name, kind)
          /\ ~is_exhausted(increment(retry, kind))
          /\ retry' = increment(retry, kind)
    /\ UNCHANGED <<callerVars, sr_pc, request, reply, ret, exc, sent, log>>

\* An attempt fails with the budget spent (or with a read error on a method
\* the policy does not retry): the exception leaves the session call
\* (line 216) as requests raises it
Session_Fault ==
    /\ sr_pc = "in_flight"
    /\ \E kind \in AttemptFailures :
          /\ \/ Reraised(retry, request.name, kind)
             \/ /\ is_exhausted(increment(retry, kind))
                /\ kind = "status" => retry.raise_on_status
          /\ retry' = increment(retry, kind)
          /\ exc' = IF kind = "status" THEN "RetryError" ELSE "ConnectionError"
    /\ sr_pc' = "raised"
    /\ UNCHANGED <<callerVars, request, reply, ret, sent, log>>

\* A send_request that sends a request classified failed once more
SendRequest_ClassifyResend ==
    /\ sr_pc = "replied"
    /\ LET out == SendRequestOutcome(request.name, reply)
           again == out.exc = "none" /\ ~out.success /\ Len(sent) = Len(log) + 1
       IN /\ exc' = out.exc
          /\ sr_pc' = IF again THEN "in_flight"
                      ELSE IF out.exc = "none" THEN "returned" ELSE "raised"
          /\ retry' = IF again THEN client.session ELSE retry
          /\ sent' = IF again THEN Append(sent, sent[Len(sent)]) ELSE sent
          /\ ret' = [success |-> out.success, result |-> out.result]
          /\ log' = IF out.exc = "none" /\ ~again
                    THEN Append(log, [name |-> request.name,
                                      status_code |-> reply.status_code,
                                      text |-> reply.text,
                                      success |-> out.success])
                    ELSE log
    /\ UNCHANGED <<callerVars, request, reply>>

\* send_request classifies the response and returns (lines 217-252)
SendRequest_Classify ==
    /\ sr_pc = "replied"
    /\ LET out == SendRequestOutcome(request.name, reply)
       IN /\ exc' = out.exc
          /\ sr_pc' = IF out.exc = "none" THEN "returned" ELSE "raised"
          /\ ret' = [success |-> out.success, result |-> out.result]
          /\ log' = IF out.exc = "none"
                    THEN Append(log, [name |-> request.name,
                                      status_code |-> reply.status_code,
                                      text |-> reply.text,
                                      success |-> out.success])
                    ELSE log
    /\ UNCHANGED <<callerVars, retry, request, reply, sent>>

SendRequestSteps ==
    Session_Respond \/ Session_Retry \/ Session_Fault \/ SendRequest_Classify

---------------------------------------------------------------------------
(* A caller of send_request itself *)

BaseUrl == "http://fhir"
Endpoints == {"http://fhir/Patient", "http://fhir/Observation"}
NoArgs == [method |-> "", endpoint |-> "", items |-> <<>>]

Call_SendRequest ==
    /\ caller = "none"
    /\ \E name \in MethodNames, url \in Endpoints :
          /\ args' = [method |-> name, endpoint |-> url, items |-> <<>>]
          /\ EnterSendRequest(name, url, NoKwargs)
    /\ caller' = "send_request"
    /\ pc' = "call"
    /\ UNCHANGED <<client, is_down, idx, success, results, fetched>>

---------------------------------------------------------------------------
(* The state after FhirApiClient(base_url) is constructed *)

NoResults == [success |-> <<>>, errors |-> <<>>]

\* FhirApiClient(base_url): auth=None, fhir_version=FHIR_VERSION
FHIR_VERSION == <<"4", ".", "0", ".", "0">>
DefaultSession ==
    requests_retry_session(DefaultTotal, DefaultRead, DefaultConnect, DefaultStatus)
DefaultClient ==
    [auth |-> None, fhir_version |-> FHIR_VERSION, status_endpoint |-> None,
     session |-> DefaultSession]

Init ==
    /\ client = DefaultClient
    /\ is_down = None
    /\ retry = NoRetry
    /\ caller = "none"
    /\ pc = "idle"
    /\ args = NoArgs
    /\ idx = 0
    /\ success = TRUE
    /\ results = NoResults
    /\ fetched = None
    /\ sr_pc = "idle"
    /\ request = NoRequest
    /\ reply = NoReply
    /\ ret = NoRet
    /\ exc = "none"
    /\ sent = <<>>
    /\ log = <<>>

NextSend == Call_SendRequest \/ SendRequestSteps
SpecSend == Init /\ [][NextSend]_vars

---------------------------------------------------------------------------
(* Claims about send_request, checked under SpecSend *)

\* send_request has ended on a response the session gave it
Answered == sr_pc \in {"returned", "raised"} /\ reply # NoReply
Returned == sr_pc = "returned"

\* The accepted status codes as the specification lists them
AcceptedSet(m) ==
    CASE m \in {"get", "GET"} -> {200}
      [] m \in {"post", "POST", "put", "PUT"} -> {200, 201}
      [] m \in {"delete", "DELETE"} -> {200, 204}
      [] OTHER -> {}
FourMethods == {"get", "GET", "post", "POST", "put", "PUT", "delete", "DELETE"}

\* The body on the wire, read as the specification reads it: a structured
\* body is a JSON object whose issues each carry a severity
IsJson(text) == \E j \in JsonTexts : j.text = text
JsonOf(text) == (CHOOSE j \in JsonTexts : j.text = text).value
IssuesOf(text) ==
    IF IsJson(text) /\ JsonOf(text).t = "dict"
       /\ "issue" \in DOMAIN JsonOf(text).d /\ JsonOf(text).d.issue.t = "list"
    THEN JsonOf(text).d.issue.v
    ELSE <<>>
IsErrorIssue(e) ==
    e.t = "dict" /\ "severity" \in DOMAIN e.d /\ e.d.severity = Str("error")
HasErrorIssue(text) ==
    \E k \in 1..Len(IssuesOf(text)) : IsErrorIssue(IssuesOf(text)[k])
Structured(text) ==
    /\ IsJson(text) /\ JsonOf(text).t = "dict"
    /\ "issue" \in DOMAIN JsonOf(text).d => JsonOf(text).d.issue.t = "list"
    /\ \A k \in 1..Len(IssuesOf(text)) :
          IssuesOf(text)[k].t = "dict" /\ "severity" \in DOMAIN IssuesOf(text)[k].d

C3_RawTextFallback ==
    (Answered /\ ~IsJson(reply.text)) =>
        /\ Returned
        /\ ret.result.response = Str(reply.text)
        /\ ret.success <=> reply.status_code \in AcceptedSet(request.name)

\* C4: for every response the session gives back, whatever its status code
\* and body, send_request ends by returning a (success, result) pair with
\* status_code, request_url and response; it never ends by raising.
C4_AlwaysReturns ==
    Answered =>
        /\ Returned
        /\ ret.result.status_code = reply.status_code
        /\ ret.result.request_url = Unquote(reply.url)

---------------------------------------------------------------------------
(* post_or_put_all *)

\* The resource dicts of the model: item i carries content "r<i>", a
\* filepath, and an endpoint of its own or none
Filepaths == {"a.json", "b.json", "c.json"}
ItemShapes ==
    [filepath : Filepaths]
        \cup [filepath : {"a.json"}, endpoint : {"http://fhir/Observation"}]
ResourceDict(shape, i) == [content |-> Str("r" \o ToString(i))] @@ shape
ResourceDictLists ==
    UNION {{[i \in 1..n |-> ResourceDict(q[i], i)] : q \in [1..n -> ItemShapes]} :
              n \in 0..MaxItems}

\* rd.get('endpoint', endpoint)
\* The endpoint argument first, as the docstring words it (lines 33-35)
EndpointOfArgumentFirst(rd, endpoint) ==
    IF endpoint # "" THEN endpoint ELSE rd.endpoint

EndpointOf(rd, endpoint) ==
    IF "endpoint" \in DOMAIN rd THEN rd.endpoint ELSE endpoint

\* The routing with the test the wrong way round for a failed item
RouteAllToSuccess(res, success_one, filepath, result) ==
    [res EXCEPT !.success = DictSet(res.success, filepath, result)]

\* if success_one: results['success'][filepath] = result
\* else: results['errors'][filepath] = result
Route(res, success_one, filepath, result) ==
    IF success_one
    THEN [res EXCEPT !.success = DictSet(res.success, filepath, result)]
    ELSE [res EXCEPT !.errors = DictSet(res.errors, filepath, result)]

\* The accumulation keeping the last item's outcome only
LastSuccess(success_one, acc) == success_one

\* success = success_one & success
AndSuccess(success_one, acc) == success_one /\ acc

\* A loop that stops at the first failed item
LoopEndsOnFailure(i, items, acc) == i > Len(items) \/ ~acc

\* for rd in resource_dicts: the loop is over
LoopEnds(i, items, acc) == i > Len(items)

\* success = True; results = defaultdict(dict) (lines 60-61)
Call_PostOrPutAll ==
    /\ caller = "none"
    /\ \E items \in ResourceDictLists, method \in {"post", "put"} :
          args' = [method |-> method, endpoint |-> "http://fhir/Patient",
                   items |-> items]
    /\ caller' = "post_or_put_all"
    /\ pc' = "loop"
    /\ idx' = 1
    /\ success' = TRUE
    /\ results' = NoResults
    /\ UNCHANGED <<client, is_down, retry, fetched, sr_pc, request, reply, ret, exc, sent, log>>

\* The next item: post_or_put (lines 63-66, 100-113) calls send_request
PostOrPutAll_Item ==
    /\ caller = "post_or_put_all"
    /\ pc = "loop"
    /\ ~LoopEnds(idx, args.items, success)
    /\ LET rd == args.items[idx]
       IN EnterSendRequest(args.method, EndpointOf(rd, args.endpoint),
                           [json |-> rd.content])
    /\ pc' = "item"
    /\ UNCHANGED <<client, is_down, caller, args, idx, success, results, fetched>>

\* send_request returned: post_or_put returns its pair, which is
\* accumulated and routed (lines 115-124, 67-72)
PostOrPutAll_Collect ==
    /\ caller = "post_or_put_all"
    /\ pc = "item"
    /\ sr_pc = "returned"
    /\ success' = AndSuccess(ret.success, success)
    /\ results' = Route(results, ret.success, args.items[idx].filepath, ret.result)
    /\ idx' = idx + 1
    /\ pc' = "loop"
    /\ sr_pc' = "idle"
    /\ UNCHANGED <<client, is_down, retry, caller, args, fetched, request, reply, ret, exc, sent, log>>

\* send_request raised: nothing catches the exception in post_or_put or in
\* post_or_put_all, it leaves both (lines 66, 111)
PostOrPutAll_Raise ==
    /\ caller = "post_or_put_all"
    /\ pc = "item"
    /\ sr_pc = "raised"
    /\ pc' = "raised"
    /\ sr_pc' = "idle"
    /\ UNCHANGED <<client, is_down, retry, caller, args, idx, success, results, fetched,
                   request, reply, ret, exc, sent, log>>

\* return success, results (line 74)
PostOrPutAll_Return ==
    /\ caller = "post_or_put_all"
    /\ pc = "loop"
    /\ LoopEnds(idx, args.items, success)
    /\ pc' = "returned"
    /\ UNCHANGED <<client, is_down, retry, caller, args, idx, success, results, fetched,
                   sr_pc, request, reply, ret, exc, sent, log>>

NextBulk ==
    \/ Call_PostOrPutAll
    \/ PostOrPutAll_Item
    \/ PostOrPutAll_Collect
    \/ PostOrPutAll_Raise
    \/ PostOrPutAll_Return
    \/ SendRequestSteps
SpecBulk == Init /\ [][NextBulk]_vars

---------------------------------------------------------------------------
(* Claims about post_or_put_all, checked under SpecBulk *)

BulkReturned == caller = "post_or_put_all" /\ pc = "returned"
NumItems == Len(args.items)
\* k: the calls of send_request that returned success = false
NumFailed == Cardinality({i \in 1..Len(log) : ~log[i].success})
Size(d) == Cardinality(DOMAIN d)
KeysDistinct ==
    \A i, j \in 1..NumItems :
        i # j => args.items[i].filepath # args.items[j].filepath

\* C5 as stated: for every list of N items of which k are classified failed,
\* the returned result has len(success) + len(errors) = N and the returned
\* flag equals (k = 0), also when two items carry the same filepath key.
C5_BatchCount ==
    BulkReturned =>
        /\ Size(results.success) + Size(results.errors) = NumItems
        /\ success <=> NumFailed = 0

\* C5, amended: len(success) + len(errors) = N for every list whose filepath
\* keys are pairwise distinct, and is never more than N for any list; the
\* returned flag equals (k = 0) for every list.
C5_BatchCountDistinctKeys ==
    BulkReturned =>
        /\ Size(results.success) + Size(results.errors) <= NumItems
        /\ KeysDistinct => Size(results.success) + Size(results.errors) = NumItems
        /\ success <=> NumFailed = 0

\* Scenario E: three items with keys of their own, the second one failed
C5_Witness ==
    /\ BulkReturned /\ NumItems = 3 /\ KeysDistinct
    /\ Len(log) = 3 /\ log[1].success /\ ~log[2].success /\ log[3].success
    /\ log[2].status_code = 400
    /\ Size(results.success) = 2 /\ Size(results.errors) = 1 /\ ~success

\* C6 as stated: after post_or_put_all returns, every input item is in
\* exactly one of the two mappings: no key is in both, no item in neither.
C6_ExactlyOneMapping ==
    BulkReturned =>
        \A i \in 1..NumItems :
            LET key == args.items[i].filepath
            IN (key \in DOMAIN results.success) # (key \in DOMAIN results.errors)

\* C6, amended: after post_or_put_all returns, the key of every input item is
\* in the mapping of its outcome (never in neither); a key is in both
\* mappings only if two items share it and were classified differently, so
\* with pairwise distinct keys every item is in exactly one mapping.
C6_AtLeastOneMapping ==
    BulkReturned =>
        /\ Len(log) = NumItems
        /\ \A i \in 1..NumItems :
              LET key == args.items[i].filepath
                  into == IF log[i].success THEN results.success ELSE results.errors
                  other == IF log[i].success THEN results.errors ELSE results.success
              IN /\ key \in DOMAIN into
                 /\ key \in DOMAIN other =>
                       \E j \in 1..NumItems :
                           /\ j # i
                           /\ args.items[j].filepath = key
                           /\ log[j].success # log[i].success
        /\ DOMAIN results.success \cup DOMAIN results.errors
              = {args.items[i].filepath : i \in 1..NumItems}

C6_Witness ==
    /\ BulkReturned /\ NumItems = 3 /\ ~KeysDistinct
    /\ \E key \in Filepaths :
          key \in DOMAIN results.success /\ key \in DOMAIN results.errors
    /\ \E key \in Filepaths :
          key \in DOMAIN results.success /\ key \notin DOMAIN results.errors

\* The request post_or_put sends for item i
ItemRequest(i) ==
    [method |-> Lower(args.method),
     url |-> IF "endpoint" \in DOMAIN args.items[i] THEN args.items[i].endpoint
             ELSE args.endpoint,
     json |-> args.items[i].content]
\* The items whose request has been sent
ItemsStarted == IF pc = "item" THEN idx ELSE idx - 1

\* C7: a classified failure of one item never stops the batch.  While
\* post_or_put_all runs, the requests sent so far are those of the first
\* items, one per item and in input order; when it returns, every item has
\* been sent exactly once, whatever the outcomes, and each item's
\* classification is decided by its own response alone.
C7_EveryItemOnceInOrder ==
    (caller = "post_or_put_all" /\ pc \in {"loop", "item", "returned"}) =>
        /\ Len(sent) = ItemsStarted
        /\ \A i \in 1..Len(sent) : sent[i] = ItemRequest(i)
        /\ pc = "returned" => Len(sent) = NumItems /\ Len(log) = NumItems
        /\ \A i \in 1..Len(log) :
              log[i].success <=>
                  /\ log[i].status_code \in AcceptedSet(args.method)
                  /\ ~HasErrorIssue(log[i].text)

C7_Witness ==
    /\ BulkReturned /\ NumItems = 3 /\ Len(sent) = 3
    /\ ~log[1].success /\ ~log[2].success /\ log[3].success

\* C8: when one item's call ends in a hard error (a transport fault), the
\* error is caught and the item recorded as a failure; the remaining items
\* are processed and post_or_put_all returns (success = false, results).
C8_HardErrorIsolated ==
    (caller = "post_or_put_all" /\ exc = "ConnectionError"
        /\ pc \in {"returned", "raised"}) =>
        /\ pc = "returned"
        /\ ~success
        /\ Len(sent) = NumItems

---------------------------------------------------------------------------
(* delete_all *)

\* resp_content.get('entry', [])
EntriesOf(resp_content) ==
    IF "entry" \in DOMAIN resp_content.d THEN resp_content.d.entry.v ELSE <<>>

\* The test that skips nothing
IsOutcomeNever(entry) == FALSE

\* entry['resource'].get('resourceType') == 'OperationOutcome'
IsOutcome(entry) ==
    /\ "resourceType" \in DOMAIN entry.d.resource.d
    /\ entry.d.resource.d.resourceType = Str("OperationOutcome")

\* rs["resourceType"] and rs["id"] can be read
HasTypeAndId(rs) == {"resourceType", "id"} \subseteq DOMAIN rs.d

\* The url built on the collection endpoint instead of the base url
DeleteUrlUnderEndpoint(rs) == args.endpoint \o "/" \o rs.d.id.s

\* f'{self.base_url}/{rs["resourceType"]}/{rs["id"]}'
DeleteUrl(rs) == BaseUrl \o "/" \o rs.d.resourceType.s \o "/" \o rs.d.id.s

\* success = True, then the fetch: send_request('get', endpoint) (lines 140-152)
\* if not request_kwargs.get('auth'): request_kwargs['auth'] = self.auth
\* (lines 145-146)
DeleteAllKwargs(request_kwargs) ==
    IF "auth" \in DOMAIN request_kwargs /\ Truthy(request_kwargs.auth)
    THEN request_kwargs
    ELSE DictSet(request_kwargs, "auth", client.auth)

Call_DeleteAll ==
    /\ caller = "none"
    /\ \E endpoint \in {"http://fhir/Patient"} :
          /\ args' = [endpoint |-> endpoint,
                       request_kwargs |-> DeleteAllKwargs(NoKwargs)]
          /\ EnterSendRequest("get", endpoint, DeleteAllKwargs(NoKwargs))
    /\ caller' = "delete_all"
    /\ pc' = "fetch"
    /\ success' = TRUE
    /\ UNCHANGED <<client, is_down, idx, results, fetched>>

\* The fetch returned (lines 148-163): the debug line reads
\* resp_content.get("total") before the `if not success: return False`
DeleteAll_Fetched ==
    /\ caller = "delete_all"
    /\ pc = "fetch"
    /\ sr_pc = "returned"
    /\ success' = ret.success
    /\ fetched' = ret.result.response
    /\ IF ret.result.response.t # "dict"
       THEN pc' = "raised" /\ exc' = "AttributeError" /\ idx' = idx
       ELSE IF ~ret.success
            THEN pc' = "returned" /\ exc' = exc /\ idx' = idx
            ELSE pc' = "loop" /\ exc' = exc /\ idx' = 1
    /\ sr_pc' = "idle"
    /\ UNCHANGED <<client, is_down, retry, caller, args, results, request, reply, ret, sent, log>>

\* An OperationOutcome entry: continue (lines 163-165)
DeleteAll_Skip ==
    /\ caller = "delete_all"
    /\ pc = "loop"
    /\ idx <= Len(EntriesOf(fetched))
    /\ IsOutcome(EntriesOf(fetched)[idx])
    /\ idx' = idx + 1
    /\ UNCHANGED <<client, is_down, retry, caller, pc, args, success, results, fetched,
                   sr_pc, request, reply, ret, exc, sent, log>>

\* Any other entry: send_request('delete', url) (lines 166-172); an entry
\* without resourceType or id raises KeyError at line 167
DeleteAll_Delete ==
    /\ caller = "delete_all"
    /\ pc = "loop"
    /\ idx <= Len(EntriesOf(fetched))
    /\ ~IsOutcome(EntriesOf(fetched)[idx])
    /\ LET rs == EntriesOf(fetched)[idx].d.resource
       IN IF HasTypeAndId(rs)
          THEN /\ EnterSendRequest("delete", DeleteUrl(rs),
                                           [auth |-> args.request_kwargs.auth])
               /\ pc' = "delete"
          ELSE /\ pc' = "raised"
               /\ exc' = "KeyError"
               /\ UNCHANGED <<sr_pc, retry, request, reply, ret, sent, log>>
    /\ UNCHANGED <<client, is_down, caller, args, idx, success, results, fetched>>

\* The delete returned: success = success_delete & success (line 173)
DeleteAll_Deleted ==
    /\ caller = "delete_all"
    /\ pc = "delete"
    /\ sr_pc = "returned"
    /\ success' = AndSuccess(ret.success, success)
    /\ idx' = idx + 1
    /\ pc' = "loop"
    /\ sr_pc' = "idle"
    /\ UNCHANGED <<client, is_down, retry, caller, args, results, fetched, request, reply, ret, exc,
                   sent, log>>

\* send_request raised in the fetch or in a delete: the exception leaves
\* delete_all (lines 148, 170)
DeleteAll_Raise ==
    /\ caller = "delete_all"
    /\ pc \in {"fetch", "delete"}
    /\ sr_pc = "raised"
    /\ pc' = "raised"
    /\ sr_pc' = "idle"
    /\ UNCHANGED <<client, is_down, retry, caller, args, idx, success, results, fetched,
                   request, reply, ret, exc, sent, log>>

\* return success (line 175)
DeleteAll_Return ==
    /\ caller = "delete_all"
    /\ pc = "loop"
    /\ idx > Len(EntriesOf(fetched))
    /\ pc' = "returned"
    /\ UNCHANGED <<client, is_down, retry, caller, args, idx, success, results, fetched,
                   sr_pc, request, reply, ret, exc, sent, log>>

NextDelete ==
    \/ Call_DeleteAll
    \/ DeleteAll_Fetched
    \/ DeleteAll_Skip
    \/ DeleteAll_Delete
    \/ DeleteAll_Deleted
    \/ DeleteAll_Raise
    \/ DeleteAll_Return
    \/ SendRequestSteps
SpecDelete == Init /\ [][NextDelete]_vars

---------------------------------------------------------------------------
(* Claims about delete_all, checked under SpecDelete *)

\* delete_all has gone past the fetch, which send_request classified failed
FetchFailed ==
    /\ caller = "delete_all" /\ pc # "fetch"
    /\ Len(log) >= 1 /\ ~log[1].success
DeletesSent == {i \in 1..Len(sent) : sent[i].method = "delete"}

\* C9: if the initial fetch is classified failed (non-accepted status code,
\* or accepted status with an error-severity issue), no DELETE request is
\* ever issued and delete_all returns False, whatever body the failed fetch
\* carries, structured or raw text.
C9_FailedFetchAborts ==
    FetchFailed =>
        /\ DeletesSent = {}
        /\ pc = "returned"
        /\ ~success

\* The urls of the OperationOutcome entries of the fetched collection
OutcomeUrls ==
    IF fetched.t = "dict"
    THEN {DeleteUrl(EntriesOf(fetched)[i].d.resource) :
            i \in {j \in 1..Len(EntriesOf(fetched)) :
                     /\ EntriesOf(fetched)[j].d.resource.d.resourceType
                            = Str("OperationOutcome")
                     /\ "id" \in DOMAIN EntriesOf(fetched)[j].d.resource.d}}
    ELSE {}

\* C10: for every fetched collection, an entry whose resourceType is
\* OperationOutcome is never the target of a DELETE request, and skipping it
\* leaves the overall flag alone: in the loop and at the return the flag is
\* true iff the fetch and every DELETE issued so far were classified
\* successful.
C10_OutcomeNeverDeleted ==
    caller = "delete_all" =>
        /\ \A i \in DeletesSent : sent[i].url \notin OutcomeUrls
        /\ pc \in {"loop", "returned"} =>
              (success <=> \A i \in 1..Len(log) : log[i].success)

C10_Witness ==
    /\ caller = "delete_all" /\ pc = "returned" /\ success
    /\ Len(EntriesOf(fetched)) = 3
    /\ OutcomeUrls # {}
    /\ IsOutcome(EntriesOf(fetched)[2])
    /\ Cardinality(DeletesSent) = 2

\* The entries delete_all has dealt with or is dealing with
EntriesStarted == IF pc = "delete" THEN idx ELSE idx - 1
\* The DELETE requests owed to a list of entries: one per entry that is
\* not an OperationOutcome, in entry order, to base_url/<resourceType>/<id>
RECURSIVE DeletesOwed(_)
DeletesOwed(q) ==
    IF q = <<>> THEN <<>>
    ELSE LET rs == Head(q).d.resource.d
         IN (IF rs.resourceType = Str("OperationOutcome") THEN <<>>
             ELSE <<[method |-> "delete",
                     url |-> BaseUrl \o "/" \o rs.resourceType.s \o "/" \o rs.id.s,
                     json |-> None]>>)
            \o DeletesOwed(Tail(q))

\* C11: after a successful fetch, exactly one DELETE is issued for every
\* entry that is not an OperationOutcome, in entry order, to
\* base_url/<resourceType>/<id>; a DELETE classified failed does not stop the
\* DELETEs of the later entries, and the returned flag is true iff the fetch
\* and every DELETE issued were classified successful.
C11_OneDeletePerEntry ==
    (/\ caller = "delete_all" /\ pc \in {"loop", "delete", "returned"}
     /\ Len(log) >= 1 /\ log[1].success) =>
        /\ Tail(sent) = DeletesOwed(SubSeq(EntriesOf(fetched), 1, EntriesStarted))
        /\ pc = "returned" =>
              /\ EntriesStarted = Len(EntriesOf(fetched))
              /\ Len(log) = Len(sent)
              /\ success <=> \A i \in 1..Len(log) : log[i].success

C11_Witness ==
    /\ caller = "delete_all" /\ pc = "returned"
    /\ Len(EntriesOf(fetched)) = 3
    /\ Len(sent) = 4 /\ Len(log) = 4
    /\ log[1].success /\ ~log[2].success /\ log[3].success /\ log[4].success
    /\ sent[2].url # sent[3].url
    /\ ~success

---------------------------------------------------------------------------
(* send_request called with keyword arguments on a configured client *)

\* FhirApiClient(base_url, auth=..., fhir_version=...); a fhir_version of
\* '' or None is the empty sequence
Credentials == {None, Str("client-cred")}
FhirVersions == {<<>>, FHIR_VERSION, <<"3", ".", "0", ".", "1">>, <<"4">>}
Clients ==
    [auth : Credentials, fhir_version : FhirVersions, status_endpoint : {None},
     session : {DefaultSession}]

InitConfigured ==
    /\ client \in Clients
    /\ is_down = None
    /\ retry = NoRetry
    /\ caller = "none"
    /\ pc = "idle"
    /\ args = NoArgs
    /\ idx = 0
    /\ success = TRUE
    /\ results = NoResults
    /\ fetched = None
    /\ sr_pc = "idle"
    /\ request = NoRequest
    /\ reply = NoReply
    /\ ret = NoRet
    /\ exc = "none"
    /\ sent = <<>>
    /\ log = <<>>

\* The keyword arguments of a call: auth and headers, each given or not
HeaderDicts ==
    {NoKwargs,
     [k \in {"Accept"} |-> "application/json"],
     [k \in {"Content-Type"} |-> "application/json"],
     [k \in {"Content-Type", "Accept"} |-> "application/json"]}
RequestKwargs ==
    {NoKwargs} \cup [auth : {Str("call-cred")}] \cup [headers : HeaderDicts]
        \cup [auth : {Str("call-cred")}, headers : HeaderDicts]

Call_SendRequestKwargs ==
    /\ caller = "none"
    /\ \E name \in {"get", "post"}, request_kwargs \in RequestKwargs :
          /\ args' = [method |-> name, endpoint |-> BaseUrl, items |-> <<>>,
                      request_kwargs |-> request_kwargs]
          /\ EnterSendRequest(name, BaseUrl, request_kwargs)
    /\ caller' = "send_request_kwargs"
    /\ pc' = "call"
    /\ UNCHANGED <<client, is_down, idx, success, results, fetched>>

NextKwargs == Call_SendRequestKwargs \/ SendRequestSteps
SpecKwargs == InitConfigured /\ [][NextKwargs]_vars

---------------------------------------------------------------------------
(* Claims about auth and headers *)

KwargsSent == caller = "send_request_kwargs" /\ sr_pc # "idle"
CallAuthGiven == "auth" \in DOMAIN args.request_kwargs
CallHeaders ==
    IF "headers" \in DOMAIN args.request_kwargs
    THEN args.request_kwargs.headers ELSE NoKwargs

\* C12: when the client has a credential and the call supplies none, the
\* client's credential is sent; when the call supplies its own credential,
\* that per-call credential is the one sent
C12_PerCallAuthWins ==
    KwargsSent =>
        /\ (~CallAuthGiven /\ Truthy(client.auth))
              => request.kwargs.auth = client.auth
        /\ CallAuthGiven => request.kwargs.auth = args.request_kwargs.auth

\* The characters of fhir_version before its first dot, as a string
RECURSIVE Join(_)
Join(chars) == IF chars = <<>> THEN "" ELSE Head(chars) \o Join(Tail(chars))
BeforeFirstDot(v) ==
    LET n == CHOOSE k \in 0..Len(v) :
                 /\ k = Len(v) \/ v[k + 1] = "."
                 /\ \A i \in 1..k : v[i] # "."
    IN Join(SubSeq(v, 1, n))
VersionedContentType ==
    "application/fhir+json; fhirVersion=" \o BeforeFirstDot(client.fhir_version)
        \o ".0"
OtherHeadersKept ==
    \A h \in DOMAIN CallHeaders :
          h \in DOMAIN request.kwargs.headers
       /\ request.kwargs.headers[h] = CallHeaders[h]

\* C13 as stated: without a Content-Type among the call's headers the
\* request carries the versioned Content-Type; with one, it is sent
\* unchanged; every other header of the call is sent unchanged
C13_ContentTypeInjected ==
    KwargsSent =>
        /\ "Content-Type" \notin DOMAIN CallHeaders =>
              /\ "Content-Type" \in DOMAIN request.kwargs.headers
              /\ request.kwargs.headers["Content-Type"] = VersionedContentType
        /\ OtherHeadersKept

\* C13: provided the client has a fhir_version, a call without a
\* Content-Type among its headers is sent with the versioned Content-Type;
\* a client without a fhir_version adds no header at all; the headers of
\* the call are sent unchanged in every case
C13_ContentTypeInjectedWithVersion ==
    KwargsSent =>
        /\ ("Content-Type" \notin DOMAIN CallHeaders /\ client.fhir_version # <<>>) =>
              /\ DOMAIN request.kwargs.headers
                    = DOMAIN CallHeaders \cup {"Content-Type"}
              /\ request.kwargs.headers["Content-Type"] = VersionedContentType
        /\ ("Content-Type" \in DOMAIN CallHeaders \/ client.fhir_version = <<>>) =>
              DOMAIN request.kwargs.headers = DOMAIN CallHeaders
        /\ OtherHeadersKept

C13_Witness ==
    /\ KwargsSent
    /\ sr_pc = "returned"
    /\ client.fhir_version = <<"3", ".", "0", ".", "1">>
    /\ DOMAIN CallHeaders = {"Accept"}
    /\ request.kwargs.headers["Content-Type"]
          = "application/fhir+json; fhirVersion=3.0"
    /\ request.kwargs.headers["Accept"] = "application/json"

---------------------------------------------------------------------------
(* Claims about the endpoint of a bulk write *)

ItemHasEndpoint(i) == "endpoint" \in DOMAIN args.items[i]

C15_EndpointArgumentWins ==
    (caller = "post_or_put_all" /\ args.endpoint # "") =>
        \A i \in 1..Len(sent) : sent[i].url = args.endpoint

---------------------------------------------------------------------------
(* send_request on a client whose session was built by
   requests_retry_session with given budgets *)

\* The arguments of requests_retry_session: its defaults, a status budget
\* below the total, a read budget below the total, a total of one
SessionArgs ==
    {[total |-> DefaultTotal, read |-> DefaultRead, connect |-> DefaultConnect,
      status |-> DefaultStatus],
     [total |-> 3, read |-> DefaultRead, connect |-> DefaultConnect, status |-> 1],
     [total |-> 3, read |-> 1, connect |-> DefaultConnect, status |-> DefaultStatus],
     [total |-> 1, read |-> DefaultRead, connect |-> DefaultConnect,
      status |-> DefaultStatus]}
SessionOf(a) == requests_retry_session(a.total, a.read, a.connect, a.status)

InitRetry ==
    /\ client \in {[DefaultClient EXCEPT !.session = SessionOf(a)] : a \in SessionArgs}
    /\ is_down = None
    /\ retry = NoRetry
    /\ caller = "none"
    /\ pc = "idle"
    /\ args = NoArgs
    /\ idx = 0
    /\ success = TRUE
    /\ results = NoResults
    /\ fetched = None
    /\ sr_pc = "idle"
    /\ request = NoRequest
    /\ reply = NoReply
    /\ ret = NoRet
    /\ exc = "none"
    /\ sent = <<>>
    /\ log = <<>>

Call_SendRequestRetry ==
    /\ caller = "none"
    /\ \E name \in {"get", "post", "put", "delete"} :
          /\ args' = [method |-> name, endpoint |-> BaseUrl, items |-> <<>>]
          /\ EnterSendRequest(name, BaseUrl, NoKwargs)
    /\ caller' = "send_request_retry"
    /\ pc' = "call"
    /\ UNCHANGED <<client, is_down, idx, success, results, fetched>>

NextRetry == Call_SendRequestRetry \/ SendRequestSteps
SpecRetry == InitRetry /\ [][NextRetry]_vars

---------------------------------------------------------------------------
(* Claims about the retry policy *)

RetryCall == caller = "send_request_retry" /\ sr_pc \in {"in_flight", "raised"}
\* How far a counter of the call's Retry has gone down
Used(counter) == client.session[counter].n - retry[counter].n
\* The attempts that failed so far, and those that failed on a forced status
FailedAttempts == Used("total")
ForcedRetries == Used("total") - Used("connect") - Used("read")
TransportFault == sr_pc = "raised" /\ exc \in {"ConnectionError", "RetryError"}

\* C16: a call whose attempts all end in a forced status code or in a
\* connection or read error makes at most total + 1 attempts, then raises
\* a transport fault; send_request returns no (success, result) pair for
\* it, and a forced status code is never classified
C16_ExhaustedBudgetRaises ==
    caller = "send_request_retry" =>
        /\ RetryCall => FailedAttempts <= client.session.total.n + 1
        /\ (RetryCall /\ sr_pc = "in_flight")
              => FailedAttempts <= client.session.total.n
        /\ TransportFault => (ret = NoRet /\ log = <<>> /\ reply = NoReply)
        /\ \A i \in 1..Len(log) : log[i].status_code \notin status_forcelist

C16_Witness ==
    /\ caller = "send_request_retry"
    /\ client.session = DefaultSession
    /\ request.name = "get"
    /\ TransportFault /\ exc = "RetryError"
    /\ ForcedRetries = DefaultTotal + 1
    /\ ret = NoRet /\ log = <<>>

\* C17: the policy retries every method alike: whatever the method, a
\* fault leaves the call only once a budget is spent, and a forced status
\* code is never handed back as the response
C17_EveryMethodRetried ==
    caller = "send_request_retry" =>
        /\ TransportFault => is_exhausted(retry)
        /\ sr_pc = "replied" => reply.status_code \notin status_forcelist

C17_Witness ==
    /\ caller = "send_request_retry"
    /\ sr_pc = "in_flight"
    /\ request.name = "post"
    /\ Used("read") = 1 /\ Used("connect") = 1 /\ ForcedRetries = 1
    /\ Len(sent) = 1

\* C19: the status argument of requests_retry_session bounds the retries
\* caused by forced status codes: a session built with status = n retries
\* a forced status code at most n times
C19_StatusBudgetBounds ==
    RetryCall =>
        \A a \in SessionArgs :
            client.session = SessionOf(a) => ForcedRetries <= a.status + 1

---------------------------------------------------------------------------
(* check_service_status: the status probe (utils.py lines 129-157), called
   directly or through FhirApiClient.check_service_status *)

Bool(b) == [t |-> "bool", b |-> b]

\* requests_retry_session(total=1, connect=1)
ProbeTotal == 1
ProbeConnect == 1
ProbeSession ==
    requests_retry_session(ProbeTotal, DefaultRead, ProbeConnect, DefaultStatus)

StatusEndpoints == {None, Str("http://fhir/metadata")}
ProbeClients ==
    [auth : Credentials, fhir_version : {<<>>, FHIR_VERSION},
     status_endpoint : StatusEndpoints, session : {DefaultSession}]

InitProbe ==
    /\ client \in ProbeClients
    /\ is_down = None
    /\ retry = NoRetry
    /\ caller = "none"
    /\ pc = "idle"
    /\ args = NoArgs
    /\ idx = 0
    /\ success = TRUE
    /\ results = NoResults
    /\ fetched = None
    /\ sr_pc = "idle"
    /\ request = NoRequest
    /\ reply = NoReply
    /\ ret = NoRet
    /\ exc = "none"
    /\ sent = <<>>
    /\ log = <<>>

\* The probe starts: the client's method probes status_endpoint or
\* base_url with its auth and version headers (client.py lines 259-261);
\* the GET goes through a session of its own (utils.py lines 136-137)
Call_CheckServiceStatus ==
    /\ caller = "none"
    /\ \E via \in {"utils", "client"}, exit_on_down \in BOOLEAN :
          LET url == IF via = "client" /\ Truthy(client.status_endpoint)
                     THEN client.status_endpoint.s ELSE BaseUrl
              kwargs == IF via = "client"
                        THEN [auth |-> client.auth, headers |-> fhir_version_headers]
                        ELSE NoKwargs
          IN /\ args' = [method |-> "get", endpoint |-> url, items |-> <<>>,
                         via |-> via, exit_on_down |-> exit_on_down]
             /\ request' = [name |-> "get", url |-> url, kwargs |-> kwargs]
             /\ sent' = Append(sent, [method |-> "get", url |-> url, json |-> None])
    /\ retry' = ProbeSession
    /\ sr_pc' = "in_flight"
    /\ caller' = "check_service_status"
    /\ pc' = "probe"
    /\ UNCHANGED <<client, is_down, idx, success, results, fetched, reply, ret,
                   exc, log>>

\* exit(1) when down and told to exit, else the return of is_down
\* (utils.py lines 153-157, client.py lines 262-265)
ProbeEnds(down) == IF args.exit_on_down /\ down THEN "exited" ELSE "returned"

\* The else branch (utils.py lines 145-151): the session call returned
Probe_Answered ==
    /\ caller = "check_service_status"
    /\ pc = "probe"
    /\ sr_pc = "replied"
    /\ is_down' = Bool(reply.status_code >= 300)
    /\ pc' = ProbeEnds(reply.status_code >= 300)
    /\ sr_pc' = "idle"
    /\ UNCHANGED <<client, caller, args, idx, success, results, fetched, retry,
                   request, reply, ret, exc, sent, log>>

\* except requests.exceptions.ConnectionError (utils.py lines 139-143)
Probe_ConnectionError ==
    /\ caller = "check_service_status"
    /\ pc = "probe"
    /\ sr_pc = "raised"
    /\ exc = "ConnectionError"
    /\ is_down' = Bool(TRUE)
    /\ pc' = ProbeEnds(TRUE)
    /\ sr_pc' = "idle"
    /\ exc' = "none"
    /\ UNCHANGED <<client, caller, args, idx, success, results, fetched, retry,
                   request, reply, ret, sent, log>>

\* Any other exception of the session call is not caught (utils.py lines
\* 135-139) and leaves check_service_status
Probe_Raise ==
    /\ caller = "check_service_status"
    /\ pc = "probe"
    /\ sr_pc = "raised"
    /\ exc # "ConnectionError"
    /\ pc' = "raised"
    /\ UNCHANGED <<client, is_down, caller, args, idx, success, results, fetched,
                   sr_pc, retry, request, reply, ret, exc, sent, log>>

NextProbe ==
    \/ Call_CheckServiceStatus
    \/ Session_Respond \/ Session_Retry \/ Session_Fault
    \/ Probe_Answered \/ Probe_ConnectionError \/ Probe_Raise
SpecProbe == InitProbe /\ [][NextProbe]_vars

---------------------------------------------------------------------------
(* Claims about the status probe *)

ProbeEnded == caller = "check_service_status" /\ pc # "probe"
ProbeAnswered == reply # NoReply

\* C18: the probe returns down (True) whenever a connection error occurs or
\* the server answers with a status code >= 300, the forced-retry codes
\* included, and up (False) when the server answers with a code below 300
C18_ProbeDownOrUp ==
    ProbeEnded =>
        /\ pc \in {"returned", "exited"}
        /\ (ProbeAnswered /\ reply.status_code < 300)
              => (pc = "returned" /\ is_down = Bool(FALSE))
        /\ (~ProbeAnswered \/ reply.status_code >= 300)
              => (is_down = Bool(TRUE) /\ (pc = "exited" <=> args.exit_on_down))

---------------------------------------------------------------------------
(* Claims about the life of one operation *)

ForcedOrAccepted(entry) ==
    \/ entry.status_code \in status_forcelist
    \/ entry.status_code \in AcceptedSet(entry.name)

\* C20: each operation goes constructed -> in-flight -> classified exactly
\* once.  A step that hands a request to the session starts a new
\* operation (in a bulk write, that of the next item) after every earlier
\* one was classified; a request in flight is answered or ends in a fault;
\* a response is classified once, by a step that sends nothing; neither
\* step ever repeats an operation whose result was a classified failure.
C20_ClassifiedIsFinal ==
    [][/\ sr_pc = "in_flight" => sr_pc' \in {"in_flight", "replied", "raised"}
       /\ sr_pc = "replied" => sr_pc' \in {"returned", "raised"}
       /\ sent' # sent =>
             /\ sr_pc \in {"idle", "returned"}
             /\ sr_pc' = "in_flight"
             /\ sent' = Append(sent, sent'[Len(sent')])
             /\ Len(sent') = Len(log') + 1
             /\ caller' = "post_or_put_all" => sent'[Len(sent')] = ItemRequest(Len(sent'))
       /\ log' # log =>
             /\ sr_pc = "replied" /\ sr_pc' = "returned"
             /\ log' = Append(log, log'[Len(log')])
             /\ Len(log') = Len(sent)
             /\ sent' = sent
             /\ ret'.success = log'[Len(log')].success]_vars

C20_Witness ==
    /\ BulkReturned
    /\ NumItems = 2 /\ Len(sent) = 2 /\ Len(log) = 2
    /\ log[1].status_code = 400 /\ ~log[1].success /\ ~ForcedOrAccepted(log[1])
    /\ log[2].status_code = 201 /\ ~log[2].success /\ HasErrorIssue(log[2].text)

====
